---- MODULE Spec2Model ----
(***************************************************************************)
(* A model of strudach (src/src/lib.rs): the loader that compiles a schema *)
(* value into a type tree (load_type), the validator that matches a        *)
(* document value against it (validate_value), and the JSON Schema emitter *)
(* (to_jsonschema).                                                        *)
(*                                                                         *)
(* serde_json values are records tagged by k:                              *)
(*   [k |-> "null"], [k |-> "bool", b |-> TRUE],                           *)
(*   [k |-> "num", repr |-> "int" or "float", whole |-> i, frac |-> f],    *)
(*   [k |-> "str", s |-> "abc"], [k |-> "arr", a |-> <<v1, ..>>],          *)
(*   [k |-> "obj", o |-> << [key |-> "a", val |-> v], .. >>]               *)
(* An object's sequence is the iteration order of its serde_json::Map; its *)
(* keys are unique.  A number is whole + frac/10; repr tells serde_json's  *)
(* integer representation from its float one (5 and 5.0 are not equal).    *)
(*                                                                         *)
(* A std HashMap is a sequence of [key, val] entries in the map's          *)
(* iteration order, which the hasher's seed decides (hashSeed).            *)
(***************************************************************************)
EXTENDS Integers, Sequences, FiniteSets, TLC

VARIABLES
    pc,         \* "start" | "loaded" | "load_err" | "load_panic" | "validated" |
                \* "validate_panic" | "batch_validated" | "batch_panic" | "converted"
    schemaSrc,  \* the schema value handed to load
    hashSeed,   \* the seed deciding the iteration order of the HashMaps built by load
    schema,     \* the Schema: [types |-> Typeshed, value |-> CommentedType]
    node,       \* the CommentedType last validated against (<<>> before any)
    origin,     \* the location the last validation started at
    doc,        \* the document value last validated
    files,      \* the input files of the last validate: <<[path, value], ..>>
    result,     \* the Result of the last validate_one, validate_value or validate
    jsonschema  \* the value last returned by to_jsonschema

vars == <<pc, schemaSrc, hashSeed, schema, node, origin, doc, files, result, jsonschema>>

----------------------------------------------------------------------------
(* serde_json::Value *)

Null == [k |-> "null"]
Bool(b) == [k |-> "bool", b |-> b]
Num(i) == [k |-> "num", repr |-> "int", whole |-> i, frac |-> 0]
Flt(i, f) == [k |-> "num", repr |-> "float", whole |-> i, frac |-> f]
Str(s) == [k |-> "str", s |-> s]
Arr(a) == [k |-> "arr", a |-> a]
Obj(o) == [k |-> "obj", o |-> o]
KV(key, val) == [key |-> key, val |-> val]

\* the keys / values of a map (serde_json::Map or HashMap), in iteration order
Keys(m) == [i \in 1..Len(m) |-> m[i].key]
Values(m) == [i \in 1..Len(m) |-> m[i].val]
KeySet(m) == {m[i].key : i \in 1..Len(m)}
contains_key(m, key) == key \in KeySet(m)
Get(m, key) == m[CHOOSE i \in 1..Len(m) : m[i].key = key].val
\* a variant of insert that leaves the value of a key already there
MapInsertKeepFirst(m, key, val) ==
    IF contains_key(m, key) THEN m ELSE Append(m, KV(key, val))

\* Map::insert: replaces the value of a key already there
MapInsert(m, key, val) ==
    IF contains_key(m, key)
    THEN [i \in 1..Len(m) |-> IF m[i].key = key THEN KV(key, val) ELSE m[i]]
    ELSE Append(m, KV(key, val))

\* PartialEq of serde_json::Value: structural, objects compared as maps
RECURSIVE ValueEq(_, _)
ValueEq(x, y) ==
    IF x.k # y.k THEN FALSE
    ELSE CASE x.k = "arr" ->
                 /\ Len(x.a) = Len(y.a)
                 /\ \A i \in 1..Len(x.a) : ValueEq(x.a[i], y.a[i])
           [] x.k = "obj" ->
                 /\ Len(x.o) = Len(y.o)
                 /\ \A i \in 1..Len(x.o) :
                       /\ contains_key(y.o, x.o[i].key)
                       /\ ValueEq(x.o[i].val, Get(y.o, x.o[i].key))
           [] OTHER -> x = y

as_f64_fract(v) == v.frac

----------------------------------------------------------------------------
(* str *)

starts_with(s, p) == Len(s) >= Len(p) /\ SubSeq(s, 1, Len(p)) = p
ends_with(s, p) == Len(s) >= Len(p) /\ SubSeq(s, Len(s) - Len(p) + 1, Len(s)) = p
\* the text after the first Len(p) characters
strip_prefix(s, p) == SubSeq(s, Len(p) + 1, Len(s))
strip_suffix(s, p) == SubSeq(s, 1, Len(s) - Len(p))
\* the position of the first occurrence of p in s, 0 when there is none
find(s, p) ==
    LET hits == {i \in 1..(Len(s) - Len(p) + 1) : SubSeq(s, i, i + Len(p) - 1) = p}
    IN IF hits = {} THEN 0 ELSE CHOOSE i \in hits : \A j \in hits : i <= j
contains(s, p) == find(s, p) # 0
\* str::split_once: <<found, before, after>>
split_once(s, sep) ==
    LET i == find(s, sep)
    IN IF i = 0 THEN <<FALSE, s, "">>
       ELSE <<TRUE, SubSeq(s, 1, i - 1), SubSeq(s, i + Len(sep), Len(s))>>

RECURSIVE join(_, _)
join(strs, sep) ==
    IF Len(strs) = 0 THEN ""
    ELSE IF Len(strs) = 1 THEN strs[1]
    ELSE strs[1] \o sep \o join(Tail(strs), sep)

\* {:?} of a str: the text in double quotes (the model's texts need no escape)
DebugStr(s) == "\"" \o s \o "\""

\* The grave accent U+0060 of the messages: a TLA+ string cannot hold the
\* character itself, so the model writes it as this escape.
BT == "\\u0060"

----------------------------------------------------------------------------
(* regex::Regex, for the patterns of the model: literal text, with an      *)
(* optional leading ^ and trailing $, and no escapes or character classes. *)
(* A pattern that opens a group and never closes it does not compile.      *)

regex_new(pattern) ==
    IF contains(pattern, "(") /\ ~contains(pattern, ")")
    THEN [tag |-> "Err", msg |-> "regex parse error: unclosed group"]
    ELSE [tag |-> "Ok", val |-> pattern]

is_match(regex, s) ==
    LET front == starts_with(regex, "^")
        back == ends_with(regex, "$")
        a == IF front THEN strip_prefix(regex, "^") ELSE regex
        core == IF back THEN strip_suffix(a, "$") ELSE a
    IN CASE front /\ back -> s = core
         [] front -> starts_with(s, core)
         [] back -> ends_with(s, core)
         [] OTHER -> contains(s, core)

----------------------------------------------------------------------------
(* Type and CommentedType = <<Type, documentation>> *)

Prim(name) == [t |-> name]
ObjectT(properties, additional) == [t |-> "Object", props |-> properties, extra |-> additional]
ArrayT(ct) == [t |-> "Array", elem |-> ct]
FixedSizeArrayT(cts) == [t |-> "FixedSizeArray", elems |-> cts]
OneOfT(cts) == [t |-> "OneOf", alts |-> cts]
AllOfT(cts) == [t |-> "AllOf", alts |-> cts]
RegexPatternT(regex) == [t |-> "RegexPattern", regex |-> regex]
LiteralT(value) == [t |-> "Literal", lit |-> value]
LiteralStringT(s) == [t |-> "LiteralString", str |-> s]
EnumT(literals) == [t |-> "Enum", vals |-> literals]
CustomT(name, ct) == [t |-> "Custom", name |-> name, spec |-> ct]

serde_type_name(object) ==
    CASE object.k = "arr" -> "array"
      [] object.k = "bool" -> "boolean"
      [] object.k = "null" -> "null"
      [] object.k = "num" -> "number"
      [] object.k = "str" -> "string"
      [] object.k = "obj" -> "object"

RECURSIVE type_name(_)
type_name(typ) ==
    CASE typ.t = "String" -> "string"
      [] typ.t = "Number" -> "number"
      [] typ.t = "Float" -> "float"
      [] typ.t = "Integer" -> "integer"
      [] typ.t = "Color" -> "color"
      [] typ.t = "Boolean" -> "boolean"
      [] typ.t = "AnyArray" -> "array"
      [] typ.t = "AnyObject" -> "object"
      [] typ.t = "Any" -> "any"
      [] typ.t = "Date" -> "date"
      [] typ.t = "DateTime" -> "datetime"
      [] typ.t = "Time" -> "time"
      [] typ.t = "HTML" -> "html"
      [] typ.t = "URL" -> "url"
      [] typ.t = "Object" -> "object"
      [] typ.t = "Array" -> "array"
      [] typ.t = "FixedSizeArray" -> "array"
      [] typ.t = "OneOf" ->
            "one of " \o join([i \in 1..Len(typ.alts) |-> type_name(typ.alts[i][1])], ", ")
      [] typ.t = "AllOf" ->
            "all of " \o join([i \in 1..Len(typ.alts) |-> type_name(typ.alts[i][1])], ", ")
      [] typ.t = "RegexPattern" -> "regex pattern"
      [] typ.t = "Literal" -> serde_type_name(typ.lit)
      [] typ.t = "LiteralString" -> "string"
      [] typ.t = "Enum" -> "enum"
      [] typ.t = "Custom" -> typ.name

----------------------------------------------------------------------------
(* The iteration order of a HashMap built by inserting the entries of      *)
(* inserted in turn: the permutation of them that the seed selects.        *)

RemoveAt(s, i) == SubSeq(s, 1, i - 1) \o SubSeq(s, i + 1, Len(s))

RECURSIVE HashMapIter(_, _)
HashMapIter(inserted, seed) ==
    IF Len(inserted) <= 1 THEN inserted
    ELSE LET i == (seed % Len(inserted)) + 1
         IN <<inserted[i]>> \o HashMapIter(RemoveAt(inserted, i), seed \div Len(inserted))

----------------------------------------------------------------------------
(* load_type.  A Result is [tag |-> "Ok", val, types], [tag |-> "Err",     *)
(* msg, types] or, for a panic that aborts the process, [tag |-> "Panic",  *)
(* types]; types is custom_types (a &mut Typeshed) as the call leaves it.  *)

Ok(val, types) == [tag |-> "Ok", val |-> val, types |-> types]
Err(msg, types) == [tag |-> "Err", msg |-> msg, types |-> types]
Panic(types) == [tag |-> "Panic", types |-> types]

\* lines 152-158: the type keyword and the documentation of a schema string
typestring_of(s) == split_once(s, ", ")[2]
documentation_of(s) == LET sp == split_once(s, ", ") IN IF sp[1] THEN sp[3] ELSE ""

\* lines 159-193: the type a keyword denotes
load_keyword(s, typestring, custom_types) ==
    CASE typestring = "string" -> Ok(Prim("String"), custom_types)
      [] typestring = "number" -> Ok(Prim("Number"), custom_types)
      [] typestring = "float" -> Ok(Prim("Float"), custom_types)
      [] typestring = "integer" -> Ok(Prim("Integer"), custom_types)
      [] typestring = "boolean" -> Ok(Prim("Boolean"), custom_types)
      [] typestring = "array" -> Ok(Prim("AnyArray"), custom_types)
      [] typestring = "object" -> Ok(Prim("AnyObject"), custom_types)
      [] typestring = "date" -> Ok(Prim("Date"), custom_types)
      [] typestring = "datetime" -> Ok(Prim("DateTime"), custom_types)
      [] typestring = "empty string" -> Ok(LiteralStringT(""), custom_types)
      [] typestring = "time" -> Ok(Prim("Time"), custom_types)
      [] typestring = "color" -> Ok(Prim("Color"), custom_types)
      [] typestring = "any" -> Ok(Prim("Any"), custom_types)
      [] typestring = "url" -> Ok(Prim("URL"), custom_types)
      [] typestring = "html" -> Ok(Prim("HTML"), custom_types)
      [] typestring = "null" -> Ok(LiteralT(Null), custom_types)
      [] OTHER ->
            IF starts_with(typestring, "literally ")
            THEN Ok(LiteralStringT(strip_prefix(typestring, "literally ")), custom_types)
            ELSE IF starts_with(typestring, "just ")
            THEN Ok(LiteralStringT(strip_prefix(typestring, "just ")), custom_types)
            ELSE IF starts_with(typestring, "'") /\ ends_with(typestring, "'")
            THEN \* typestring[1..typestring.len()-1] panics when 1 > len - 1
                 IF 1 > Len(typestring) - 1 THEN Panic(custom_types)
                 ELSE Ok(LiteralStringT(SubSeq(typestring, 2, Len(typestring) - 1)),
                         custom_types)
            ELSE IF starts_with(typestring, "matches regex ")
            THEN LET r == regex_new(strip_prefix(typestring, "matches regex "))
                 IN IF r.tag = "Ok" THEN Ok(RegexPatternT(r.val), custom_types)
                    ELSE Err(r.msg, custom_types)
            ELSE IF contains_key(custom_types, typestring)
            THEN Ok(CustomT(typestring, Get(custom_types, typestring)), custom_types)
            ELSE Err("Invalid type " \o DebugStr(s), custom_types)

\* lines 151-194 and 256: load_type of Value::String(s)
with_documentation(r, documentation) ==
    IF r.tag # "Ok" THEN r ELSE Ok(<<r.val, documentation>>, r.types)
load_string(s, custom_types) ==
    with_documentation(load_keyword(s, typestring_of(s), custom_types), documentation_of(s))

\* lines 219-225: the literals of an Enum are the values of the one-key map
enum_literals(map) == Values(map)

\* line 242: value.as_bool().unwrap()
as_bool(value) == IF value.k = "bool" THEN [some |-> TRUE, b |-> value.b] ELSE [some |-> FALSE]

RECURSIVE load_type(_, _, _)
RECURSIVE load_elements(_, _, _, _, _)
RECURSIVE load_typeshed(_, _, _, _)
RECURSIVE load_properties(_, _, _, _, _, _)

\* lines 144-146 and 203-205: load_type of each element from the i-th on, in turn
load_elements(elements, i, types, custom_types, seed) ==
    IF i > Len(elements) THEN Ok(types, custom_types)
    ELSE LET r == load_type(elements[i], custom_types, seed)
         IN IF r.tag # "Ok" THEN r
            ELSE load_elements(elements, i + 1, Append(types, r.val), r.types, seed)

\* lines 234-237: each entry of "(types)" is loaded and inserted in turn
load_typeshed(typeshed, i, custom_types, seed) ==
    IF i > Len(typeshed) THEN Ok(<<>>, custom_types)
    ELSE LET r == load_type(typeshed[i].val, custom_types, seed)
         IN IF r.tag # "Ok" THEN r
            ELSE load_typeshed(typeshed, i + 1,
                               MapInsert(r.types, typeshed[i].key, r.val), seed)

\* lines 239-249: the properties and the additional_properties flag
load_properties(map, i, properties, additional_properties, custom_types, seed) ==
    IF i > Len(map)
    THEN Ok([props |-> properties, extra |-> additional_properties], custom_types)
    ELSE LET key == map[i].key
             value == map[i].val
         IN CASE key \in {"(additional properties)", "(additional keys)"} ->
                    IF as_bool(value).some
                    THEN load_properties(map, i + 1, properties, as_bool(value).b,
                                         custom_types, seed)
                    ELSE Panic(custom_types)
              [] key = "(types)" ->
                    load_properties(map, i + 1, properties, additional_properties,
                                    custom_types, seed)
              [] OTHER ->
                    LET r == load_type(value, custom_types, seed)
                    IN IF r.tag # "Ok" THEN r
                       ELSE load_properties(map, i + 1, Append(properties, KV(key, r.val)),
                                            additional_properties, r.types, seed)

\* lines 195-254: an object of the schema
load_object(value, custom_types, seed) ==
    LET map == value.o
        first == map[1].key
    IN IF Len(map) = 0 THEN Ok(LiteralT(value), custom_types)
       ELSE IF first \in {"(one of)", "(all of)"} /\ Len(map) = 1
       THEN IF map[1].val.k = "arr"
            THEN LET r == load_elements(map[1].val.a, 1, <<>>, custom_types, seed)
                 IN IF r.tag # "Ok" THEN r
                    ELSE IF first = "(one of)" THEN Ok(OneOfT(r.val), r.types)
                    ELSE Ok(AllOfT(r.val), r.types)
            ELSE Err(first \o " must be an array of possibles types", custom_types)
       ELSE IF first \in {"(one of literally)", "(enum)"} /\ Len(map) = 1
       THEN Ok(EnumT(enum_literals(map)), custom_types)
       ELSE LET shed == IF contains_key(map, "(types)")
                        THEN IF Get(map, "(types)").k = "obj"
                             THEN load_typeshed(Get(map, "(types)").o, 1, custom_types, seed)
                             ELSE Err("Typeshed must be an object mapping type names to types",
                                      custom_types)
                        ELSE Ok(<<>>, custom_types)
            IN IF shed.tag # "Ok" THEN shed
               ELSE LET r == load_properties(map, 1, <<>>, FALSE, shed.types, seed)
                    IN IF r.tag # "Ok" THEN r
                       ELSE Ok(ObjectT(HashMapIter(r.val.props, seed), r.val.extra), r.types)

\* lines 133-257
load_type(value, custom_types, seed) ==
    CASE value.k = "arr" ->
            IF Len(value.a) = 0 THEN Ok(<<LiteralT(value), "">>, custom_types)
            ELSE IF Len(value.a) = 1
            THEN LET r == load_type(value.a[1], custom_types, seed)
                 IN IF r.tag # "Ok" THEN r ELSE Ok(<<ArrayT(r.val), "">>, r.types)
            ELSE LET r == load_elements(value.a, 1, <<>>, custom_types, seed)
                 IN IF r.tag # "Ok" THEN r ELSE Ok(<<FixedSizeArrayT(r.val), "">>, r.types)
      [] value.k \in {"bool", "null", "num"} -> Ok(<<LiteralT(value), "">>, custom_types)
      [] value.k = "str" ->
            load_string(value.s, custom_types)
      [] value.k = "obj" ->
            LET r == load_object(value, custom_types, seed)
            IN IF r.tag # "Ok" THEN r ELSE Ok(<<r.val, "">>, r.types)

\* lines 259-267, from the parsed value on: a Schema, or the error
load(value, seed) ==
    LET r == load_type(value, <<>>, seed)
    IN IF r.tag = "Ok" THEN [tag |-> "Ok", val |-> [types |-> r.types, value |-> r.val]]
       ELSE IF r.tag = "Err" THEN [tag |-> "Err", msg |-> r.msg]
       ELSE [tag |-> "Panic"]

----------------------------------------------------------------------------
(* The format checkers validate_value delegates to (css_color, html_parser, *)
(* iso8601, validator), each on the few texts the model's documents hold.   *)

css_color_parse(s) ==
    IF s \in {"red", "#fff"} THEN [tag |-> "Ok"] ELSE [tag |-> "Err", e |-> "ParseColorError"]
\* Dom::parse: Ok, Err(Error::Parsing(e)), or another Err
html_parse(s) ==
    IF starts_with(s, "<") /\ ~ends_with(s, ">")
    THEN [tag |-> "Parsing", e |-> "expected closing tag"]
    ELSE [tag |-> "Ok"]
iso8601_date(s) ==
    IF Len(s) = 10 /\ SubSeq(s, 5, 5) = "-" /\ SubSeq(s, 8, 8) = "-"
    THEN [tag |-> "Ok"] ELSE [tag |-> "Err", e |-> "Parsing Error: " \o s]
iso8601_time(s) ==
    IF Len(s) = 5 /\ SubSeq(s, 3, 3) = ":"
    THEN [tag |-> "Ok"] ELSE [tag |-> "Err", e |-> "Parsing Error: " \o s]
iso8601_datetime(s) ==
    IF Len(s) = 16 /\ SubSeq(s, 11, 11) = "T"
          /\ iso8601_date(SubSeq(s, 1, 10)).tag = "Ok"
          /\ iso8601_time(SubSeq(s, 12, 16)).tag = "Ok"
    THEN [tag |-> "Ok"] ELSE [tag |-> "Err", e |-> "Parsing Error: " \o s]
validate_url(s) == starts_with(s, "http://") \/ starts_with(s, "https://")

----------------------------------------------------------------------------
(* validate_value.  A Result is [tag |-> "Ok", val |-> the errors, types],  *)
(* [tag |-> "Err", msg, types] or [tag |-> "Panic", types].                 *)

ValidationError(file, path, message) == [file |-> file, path |-> path, message |-> message]

is_generic(key) == starts_with(key, "(") /\ ends_with(key, ")")

\* lines 471-474: the first parenthesized key in the HashMap's iteration order
generic_key(properties) ==
    LET found == SelectSeq(Keys(properties), is_generic)
    IN IF Len(found) = 0 THEN [some |-> FALSE]
       ELSE [some |-> TRUE, key |-> strip_suffix(strip_prefix(found[1], "("), ")")]

\* a variant that reports the key whatever additional_properties is
additional_property_errors_always(file, location, key, additional_properties) ==
    <<ValidationError(file, location, "Object has additional property " \o BT \o key \o BT)>>

\* lines 499-505
additional_property_errors(file, location, key, additional_properties) ==
    IF ~additional_properties
    THEN <<ValidationError(file, location, "Object has additional property " \o BT \o key \o BT)>>
    ELSE <<>>

\* lines 507-511
missing_keys(properties, map) ==
    SelectSeq(Keys(properties), LAMBDA key : ~is_generic(key) /\ ~contains_key(map, key))

\* a variant that reports each missing key in an error of its own
missing_errors_per_key(file, location, missing) ==
    [i \in 1..Len(missing) |->
        ValidationError(file, location, "Object is missing property " \o BT \o missing[i] \o BT)]

\* lines 512-531
missing_errors(file, location, missing) ==
    IF Len(missing) # 0
    THEN <<ValidationError(file, location,
              "Object is missing "
              \o (IF Len(missing) = 1 THEN "property" ELSE "properties")
              \o " "
              \o join([i \in 1..Len(missing) |-> BT \o missing[i] \o BT], ", "))>>
    ELSE <<>>

\* {:?} of a serde_json::Value
RECURSIVE DebugValue(_)
DebugValue(v) ==
    CASE v.k = "null" -> "Null"
      [] v.k = "bool" -> "Bool(" \o (IF v.b THEN "true" ELSE "false") \o ")"
      [] v.k = "num" ->
            "Number(" \o ToString(v.whole)
            \o (IF v.repr = "float" THEN "." \o ToString(v.frac) ELSE "") \o ")"
      [] v.k = "str" -> "String(" \o DebugStr(v.s) \o ")"
      [] v.k = "arr" ->
            "Array [" \o join([i \in 1..Len(v.a) |-> DebugValue(v.a[i])], ", ") \o "]"
      [] v.k = "obj" ->
            "Object {"
            \o join([i \in 1..Len(v.o) |->
                        DebugStr(v.o[i].key) \o ": " \o DebugValue(v.o[i].val)], ", ")
            \o "}"

\* lines 568-574
enum_valid(value, literals) == \E i \in 1..Len(literals) : ValueEq(value, literals[i])

\* lines 575-589
enum_errors(file, location, value, literals) ==
    IF ~enum_valid(value, literals)
    THEN <<ValidationError(file, location,
              "Value is not any of the allowed values: "
              \o join([i \in 1..Len(literals) |-> DebugValue(literals[i])], ", "))>>
    ELSE <<>>

\* a variant that leaves the message of the resolved type as it is
custom_message_unprefixed(type_name_, message) == message

\* line 604
custom_message(type_name_, message) == "Custom type " \o BT \o type_name_ \o BT \o ": " \o message

\* lines 599-610
custom_errors(type_name_, validation_sub_errors) ==
    [i \in 1..Len(validation_sub_errors) |->
        ValidationError(validation_sub_errors[i].file,
                        validation_sub_errors[i].path,
                        custom_message(type_name_, validation_sub_errors[i].message))]

\* a variant whose message also shows the documentation of the type
mismatch_errors_documented(file, location, typ, value) ==
    <<ValidationError(file, location,
         "Value has type " \o serde_type_name(value)
         \o ", which does not match type " \o type_name(typ[1]) \o " (" \o typ[2] \o ")")>>

\* lines 613-625
mismatch_errors(file, location, typ, value) ==
    <<ValidationError(file, location,
         "Value has type " \o serde_type_name(value)
         \o ", which does not match type " \o type_name(typ[1]))>>

\* lines 339-455: a scalar value against a type that has an arm for its kind
scalar_errors(file, location, typ, value) ==
    LET t == typ[1].t
        one(message) == <<ValidationError(file, location, message)>>
    IN CASE value.k = "bool" /\ t = "Boolean" -> <<>>
         [] value.k = "null" /\ t = "Literal" /\ typ[1].lit.k = "null" -> <<>>
         [] value.k = "num" /\ t = "Number" -> <<>>
         [] value.k = "num" /\ t = "Float" ->
               IF as_f64_fract(value) = 0 THEN one("Number is not a float") ELSE <<>>
         [] value.k = "num" /\ t = "Integer" ->
               IF as_f64_fract(value) # 0 THEN one("Number is not an integer") ELSE <<>>
         [] value.k = "str" /\ t = "Color" ->
               LET r == css_color_parse(value.s)
               IN IF r.tag = "Ok" THEN <<>>
                  ELSE one("String is not a valid color: " \o r.e)
         [] value.k = "str" /\ t = "Date" ->
               LET r == iso8601_date(value.s)
               IN IF r.tag = "Ok" THEN <<>>
                  ELSE one("String is not a valid date: " \o r.e)
         [] value.k = "str" /\ t = "DateTime" ->
               LET r == iso8601_datetime(value.s)
               IN IF r.tag = "Ok" THEN <<>>
                  ELSE one("String is not a valid datetime: " \o r.e)
         [] value.k = "str" /\ t = "Time" ->
               LET r == iso8601_time(value.s)
               IN IF r.tag = "Ok" THEN <<>>
                  ELSE one("String is not a valid time: " \o r.e)
         [] value.k = "str" /\ t = "URL" ->
               IF validate_url(value.s) THEN <<>> ELSE one("String is not a valid URL")
         [] value.k = "str" /\ t = "String" -> <<>>
         [] value.k = "str" /\ t = "RegexPattern" ->
               IF ~is_match(typ[1].regex, value.s)
               THEN one("String does not match regex " \o typ[1].regex)
               ELSE <<>>
         [] value.k = "str" /\ t = "Literal" /\ typ[1].lit.k = "str" ->
               IF value.s # typ[1].lit.s
               THEN one("String is not literally " \o DebugStr(typ[1].lit.s))
               ELSE <<>>
         [] value.k = "str" /\ t = "LiteralString" ->
               IF value.s # typ[1].str
               THEN one("String is not literally " \o DebugStr(typ[1].str))
               ELSE <<>>
         [] OTHER -> mismatch_errors(file, location, typ, value)

RECURSIVE validate_value(_, _, _, _, _)
RECURSIVE validate_array(_, _, _, _, _, _, _)
RECURSIVE validate_fixed(_, _, _, _, _, _, _)
RECURSIVE validate_keys(_, _, _, _, _, _, _, _)
RECURSIVE validate_all_of(_, _, _, _, _, _, _)
RECURSIVE validate_one_of(_, _, _, _, _, _, _)

\* a variant that stops at the first element that has errors
RECURSIVE validate_array_until_error(_, _, _, _, _, _, _)
validate_array_until_error(file, location, elements_type, elements, i, validation_errors, custom_types) ==
    IF i > Len(elements) THEN Ok(validation_errors, custom_types)
    ELSE LET r == validate_value(file, Append(location, ToString(i - 1)), elements_type,
                                 elements[i], custom_types)
         IN IF r.tag # "Ok" THEN r
            ELSE IF Len(r.val) # 0 THEN Ok(validation_errors \o r.val, r.types)
            ELSE validate_array_until_error(file, location, elements_type, elements, i + 1,
                                            validation_errors, r.types)

\* a variant that validates every element against the type of the first position
RECURSIVE validate_fixed_first_type(_, _, _, _, _, _, _)
validate_fixed_first_type(file, location, types, elements, i, validation_errors, custom_types) ==
    IF i > Len(elements) THEN Ok(validation_errors, custom_types)
    ELSE LET r == validate_value(file, Append(location, ToString(i - 1)), types[1],
                                 elements[i], custom_types)
         IN IF r.tag # "Ok" THEN r
            ELSE validate_fixed_first_type(file, location, types, elements, i + 1,
                                           validation_errors \o r.val, r.types)

\* lines 299-311: the elements from the i-th on, each against elements_type
validate_array(file, location, elements_type, elements, i, validation_errors, custom_types) ==
    IF i > Len(elements) THEN Ok(validation_errors, custom_types)
    ELSE LET r == validate_value(file, Append(location, ToString(i - 1)), elements_type,
                                 elements[i], custom_types)
         IN IF r.tag # "Ok" THEN r
            ELSE validate_array(file, location, elements_type, elements, i + 1,
                                validation_errors \o r.val, r.types)

\* lines 323-335: the elements from the i-th on, each against the type of its position
validate_fixed(file, location, types, elements, i, validation_errors, custom_types) ==
    IF i > Len(elements) THEN Ok(validation_errors, custom_types)
    ELSE LET r == validate_value(file, Append(location, ToString(i - 1)), types[i],
                                 elements[i], custom_types)
         IN IF r.tag # "Ok" THEN r
            ELSE validate_fixed(file, location, types, elements, i + 1,
                                validation_errors \o r.val, r.types)

\* errs followed by the errors of r, or the failure r
append_result(errs, r) == IF r.tag # "Ok" THEN r ELSE Ok(errs \o r.val, r.types)

\* lines 488-498: the value of a key the generic key stands for, after its name (rk)
validate_generic_value(file, location, properties, generic, key, value, rk) ==
    IF rk.tag # "Ok" THEN rk
    ELSE append_result(rk.val,
                       validate_value(file, Append(location, key),
                                      Get(properties, "(" \o generic \o ")"),
                                      value, rk.types))

\* lines 476-498: a key the generic key stands for; key_type is the Result of
\* load_type(Value::String(generic_key), custom_types)
validate_generic(file, location, properties, generic, key, value, key_type) ==
    IF key_type.tag # "Ok" THEN key_type
    ELSE validate_generic_value(file, location, properties, generic, key, value,
                                validate_value(file, Append(location, "(key)"),
                                               key_type.val, Str(key), key_type.types))

\* lines 457-506: the keys of the document from the i-th on
validate_keys(file, location, properties, additional_properties, map, i, validation_errors, custom_types) ==
    IF i > Len(map) THEN Ok(validation_errors, custom_types)
    ELSE LET key == map[i].key
             value == map[i].val
             generic == generic_key(properties)
             next(errors, types) ==
                 validate_keys(file, location, properties, additional_properties, map,
                               i + 1, validation_errors \o errors, types)
         IN IF contains_key(properties, key)
            THEN LET r == validate_value(file, Append(location, key),
                                         Get(properties, key), value, custom_types)
                 IN IF r.tag # "Ok" THEN r ELSE next(r.val, r.types)
            ELSE IF generic.some
            THEN LET r == validate_generic(file, location, properties, generic.key, key,
                                           value,
                                           load_string(generic.key, custom_types))
                 IN IF r.tag # "Ok" THEN r ELSE next(r.val, r.types)
            ELSE next(additional_property_errors(file, location, key,
                                                 additional_properties),
                      custom_types)

\* lines 535-543
validate_all_of(file, location, types, value, i, validation_errors, custom_types) ==
    IF i > Len(types) THEN Ok(validation_errors, custom_types)
    ELSE LET r == validate_value(file, location, types[i], value, custom_types)
         IN IF r.tag # "Ok" THEN r
            ELSE validate_all_of(file, location, types, value, i + 1,
                                 validation_errors \o r.val, r.types)

\* a variant that reports the errors of the first alternative only
validate_one_of_first_only(file, location, types, value, i, validation_errors, custom_types) ==
    LET summary == ValidationError(file, location, "Value does not match any of the types")
    IN IF i > Len(types) THEN Ok(<<summary>>, custom_types)
       ELSE LET r == validate_value(file, location, types[i], value, custom_types)
            IN IF r.tag # "Ok" THEN r
               ELSE IF Len(r.val) = 0 THEN Ok(<<>>, r.types)
               ELSE Ok(Append(r.val, summary), r.types)

\* lines 547-565
validate_one_of(file, location, types, value, i, validation_errors, custom_types) ==
    IF i > Len(types)
    THEN \* no alternative was valid
         Ok(Append(validation_errors,
                   ValidationError(file, location, "Value does not match any of the types")),
            custom_types)
    ELSE LET r == validate_value(file, location, types[i], value, custom_types)
         IN IF r.tag # "Ok" THEN r
            ELSE IF Len(r.val) = 0
            THEN \* valid = true; break
                 Ok(validation_errors, r.types)
            ELSE validate_one_of(file, location, types, value, i + 1,
                                 validation_errors \o r.val, r.types)

\* lines 280-627
validate_value(file, location, typ, value, custom_types) ==
    LET t == typ[1].t
    IN CASE t = "Any" -> Ok(<<>>, custom_types)
         [] value.k = "arr" /\ t = "AnyArray" -> Ok(<<>>, custom_types)
         [] value.k = "arr" /\ t = "Array" ->
               validate_array(file, location, typ[1].elem, value.a, 1, <<>>, custom_types)
         [] value.k = "arr" /\ t = "FixedSizeArray" ->
               IF Len(value.a) # Len(typ[1].elems)
               THEN Ok(<<ValidationError(file, location,
                            "Array length does not match fixed size "
                            \o ToString(Len(typ[1].elems)))>>,
                       custom_types)
               ELSE validate_fixed(file, location, typ[1].elems, value.a, 1, <<>>,
                                   custom_types)
         [] value.k = "str" /\ t = "HTML" ->
               LET r == html_parse(value.s)
               IN CASE r.tag = "Ok" -> Ok(<<>>, custom_types)
                    [] r.tag = "Parsing" ->
                          Ok(<<ValidationError(file, location,
                                  "String is not valid HTML: " \o r.e)>>, custom_types)
                    [] OTHER -> Err("Error while validating HTML: " \o r.e, custom_types)
         [] value.k = "obj" /\ t = "Object" ->
               LET r == validate_keys(file, location, typ[1].props, typ[1].extra, value.o,
                                      1, <<>>, custom_types)
               IN IF r.tag # "Ok" THEN r
                  ELSE Ok(r.val \o missing_errors(file, location,
                                                  missing_keys(typ[1].props, value.o)),
                          r.types)
         [] t = "AllOf" ->
               validate_all_of(file, location, typ[1].alts, value, 1, <<>>, custom_types)
         [] t = "OneOf" ->
               validate_one_of(file, location, typ[1].alts, value, 1, <<>>, custom_types)
         [] t = "Enum" ->
               Ok(enum_errors(file, location, value, typ[1].vals), custom_types)
         [] t = "Custom" ->
               LET r == validate_value(file, location, typ[1].spec, value, custom_types)
               IN IF r.tag # "Ok" THEN r
                  ELSE Ok(custom_errors(typ[1].name, r.val), r.types)
         [] OTHER -> Ok(scalar_errors(file, location, typ, value), custom_types)

\* lines 629-641, from the parsed document on; an input file is [path, value]
validate_one(sch, input_file) ==
    validate_value(input_file.path, <<>>, sch.value, input_file.value, sch.types)

\* a variant of validate that keeps the errors of the last file only
RECURSIVE validate_last_only(_, _, _, _)
validate_last_only(sch, input_files, i, validation_errors) ==
    IF i > Len(input_files) THEN Ok(validation_errors, sch.types)
    ELSE LET r == validate_one(sch, input_files[i])
         IN IF r.tag # "Ok" THEN r
            ELSE validate_last_only([sch EXCEPT !.types = r.types], input_files, i + 1, r.val)

\* lines 643-652: the input files from the i-th on
RECURSIVE validate(_, _, _, _)
validate(sch, input_files, i, validation_errors) ==
    IF i > Len(input_files) THEN Ok(validation_errors, sch.types)
    ELSE LET r == validate_one(sch, input_files[i])
         IN IF r.tag # "Ok" THEN r
            ELSE validate([sch EXCEPT !.types = r.types], input_files, i + 1,
                          validation_errors \o r.val)

----------------------------------------------------------------------------
(* to_jsonschema *)

\* Display of a serde_json::Value (to_string): its JSON text
RECURSIVE ValueToString(_)
ValueToString(v) ==
    CASE v.k = "null" -> "null"
      [] v.k = "bool" -> IF v.b THEN "true" ELSE "false"
      [] v.k = "num" ->
            ToString(v.whole) \o (IF v.repr = "float" THEN "." \o ToString(v.frac) ELSE "")
      [] v.k = "str" -> DebugStr(v.s)
      [] v.k = "arr" ->
            "[" \o join([i \in 1..Len(v.a) |-> ValueToString(v.a[i])], ",") \o "]"
      [] v.k = "obj" ->
            "{"
            \o join([i \in 1..Len(v.o) |->
                        DebugStr(v.o[i].key) \o ":" \o ValueToString(v.o[i].val)], ",")
            \o "}"

\* line 730
ref_of(typename) == "#/definitions/" \o typename

\* line 663: the key of the root that holds the definitions
definitions_key == "$defs"

\* lines 667-884: the serde_json::Map of a type
RECURSIVE type_to_jsonschema(_)
RECURSIVE properties_to_jsonschema(_, _, _)

\* lines 819-825
properties_to_jsonschema(obj, i, props) ==
    IF i > Len(obj) THEN props
    ELSE properties_to_jsonschema(obj, i + 1,
             MapInsert(props, obj[i].key, Obj(type_to_jsonschema(obj[i].val))))

type_to_jsonschema(value) ==
    LET typ == value[1]
        t == typ.t
        out == IF value[2] # "" THEN <<KV("description", Str(value[2]))>> ELSE <<>>
        ty(name) == MapInsert(out, "type", Str(name))
        each(types) == Arr([i \in 1..Len(types) |-> Obj(type_to_jsonschema(types[i]))])
    IN CASE t = "AllOf" -> MapInsert(out, "allOf", each(typ.alts))
         [] t = "Any" -> ty("any")
         [] t = "AnyArray" -> ty("array")
         [] t = "AnyObject" -> ty("object")
         [] t = "Array" ->
               MapInsert(ty("array"), "items", Obj(type_to_jsonschema(typ.elem)))
         [] t = "Boolean" -> ty("boolean")
         [] t = "Color" -> ty("string")
         [] t = "Custom" -> MapInsert(out, "$ref", Str(ref_of(typ.name)))
         [] t = "Date" -> MapInsert(ty("string"), "format", Str("date"))
         [] t = "DateTime" -> MapInsert(ty("string"), "format", Str("date-time"))
         [] t = "Enum" ->
               MapInsert(out, "enum",
                         Arr([i \in 1..Len(typ.vals) |-> Str(ValueToString(typ.vals[i]))]))
         [] t = "FixedSizeArray" -> MapInsert(ty("array"), "items", each(typ.elems))
         [] t = "Float" -> MapInsert(ty("number"), "format", Str("float"))
         [] t = "HTML" -> ty("string")
         [] t = "Integer" -> ty("integer")
         [] t = "Literal" -> MapInsert(out, "const", typ.lit)
         [] t = "LiteralString" -> MapInsert(out, "const", Str(typ.str))
         [] t = "Number" -> ty("number")
         [] t = "Object" ->
               LET o == MapInsert(ty("object"), "properties",
                                  Obj(properties_to_jsonschema(typ.props, 1, <<>>)))
               IN IF typ.extra THEN MapInsert(o, "additionalProperties", Bool(TRUE)) ELSE o
         [] t = "OneOf" -> MapInsert(out, "oneOf", each(typ.alts))
         [] t = "RegexPattern" -> MapInsert(ty("string"), "pattern", Str(typ.regex))
         [] t = "String" -> ty("string")
         [] t = "Time" -> MapInsert(ty("string"), "format", Str("time"))
         [] t = "URL" -> MapInsert(ty("string"), "format", Str("uri"))

\* lines 657-662
RECURSIVE definitions_of(_, _, _)
definitions_of(types, i, definitions) ==
    IF i > Len(types) THEN definitions
    ELSE definitions_of(types, i + 1,
             MapInsert(definitions, types[i].key, Obj(type_to_jsonschema(types[i].val))))

\* lines 654-665
to_jsonschema(sch) ==
    Obj(MapInsert(type_to_jsonschema(sch.value), definitions_key,
                  Obj(definitions_of(sch.types, 1, <<>>))))

----------------------------------------------------------------------------
(* The inputs: schema values and document values *)

MaxNest == 2        \* how deep a schema of NestedLeaves is wrapped
MaxArrayLen == 2    \* the longest generated document array
MaxObjectLen == 3   \* the most keys of a generated document object
HashSeeds == 6      \* how many HashMap iteration orders are tried

SeqsUpTo(S, n) == UNION {[1..m -> S] : m \in 0..n}

\* schema values that load_type accepts
GoodSchemas ==
    { Str("integer"), Str("string"), Str("number"), Str("float"), Str("boolean"),
      Str("array"), Str("object"), Str("any"), Str("null"), Str("empty string"),
      Str("date"), Str("datetime"), Str("time"), Str("color"), Str("url"),
      Str("literally a"), Str("just x"), Str("'a'"), Str("matches regex ^a"),
      Str("integer, the port"),
      Bool(TRUE), Num(5), Flt(5, 5), Null, Arr(<<>>), Obj(<<>>),
      Arr(<<Str("integer")>>), Arr(<<Str("string"), Str("integer")>>),
      Obj(<<KV("(one of)", Arr(<<Str("integer"), Str("string")>>))>>),
      Obj(<<KV("(one of)", Arr(<<Str("boolean"), Str("integer"), Str("string")>>))>>),
      Obj(<<KV("(one of)", Arr(<<Obj(<<KV("a", Str("string"))>>), Str("integer")>>))>>),
      Obj(<<KV("(all of)", Arr(<<Str("integer"), Str("number")>>))>>),
      Obj(<<KV("(all of)", Arr(<<Str("string"), Str("integer")>>))>>),
      Obj(<<KV("(enum)", Arr(<<Str("red"), Str("x")>>))>>),
      Obj(<<KV("(one of literally)", Arr(<<Num(1), Str("a")>>))>>),
      Obj(<<KV("(types)", Obj(<<KV("Port", Str("integer"))>>)), KV("port", Str("Port"))>>),
      Obj(<<KV("a", Str("Port, the port")), KV("(types)", Obj(<<KV("Port", Str("integer"))>>))>>),
      Obj(<<KV("(types)", Obj(<<KV("P", Obj(<<KV("a", Str("integer")),
                                              KV("b", Str("string"))>>))>>)),
            KV("port", Str("P"))>>),
      Obj(<<KV("(types)", Obj(<<KV("S", Str("string")), KV("L", Arr(<<Str("S")>>))>>)),
            KV("a", Str("L")), KV("b", Str("S"))>>),
      Obj(<<KV("a", Str("string"))>>),
      Obj(<<KV("a", Str("string")), KV("b", Str("integer"))>>),
      Obj(<<KV("a", Str("string")), KV("b", Str("integer")), KV("port", Str("any"))>>),
      Obj(<<KV("(additional properties)", Bool(TRUE)), KV("a", Str("string")),
            KV("b", Str("integer"))>>),
      Obj(<<KV("a", Str("string")), KV("(additional keys)", Bool(FALSE))>>),
      Obj(<<KV("a", Obj(<<KV("a", Str("string"))>>))>>),
      Obj(<<KV("(string)", Str("integer"))>>),
      Obj(<<KV("a", Str("string")), KV("(integer)", Str("integer"))>>),
      Obj(<<KV("a", Str("string")), KV("b", Str("integer")), KV("(string)", Str("integer"))>>),
      Obj(<<KV("(additional properties)", Bool(TRUE)), KV("(literally b)", Str("integer")),
            KV("a", Str("string"))>>),
      Obj(<<KV("(foo)", Str("string"))>>),
      Obj(<<KV("a", Str("integer")), KV("(')", Str("string"))>>) }

\* schema values with one of the defects load_type is to refuse
BadSchemas ==
    { Str("matches regex ("), Str("bogus"),
      Obj(<<KV("(one of)", Num(5))>>), Obj(<<KV("(all of)", Str("string"))>>),
      Obj(<<KV("(types)", Num(3))>>),
      Obj(<<KV("(additional properties)", Str("yes"))>>),
      Obj(<<KV("a", Str("string")), KV("(additional keys)", Num(1))>>) }

Wrappings(x) ==
    { Arr(<<x>>), Arr(<<Str("string"), x>>), Obj(<<KV("a", x)>>),
      Obj(<<KV("(one of)", Arr(<<Str("string"), x>>))>>),
      Obj(<<KV("(types)", Obj(<<KV("T", x)>>))>>) }

RECURSIVE Nested(_, _)
Nested(S, n) == IF n = 0 THEN S ELSE S \cup Nested(UNION {Wrappings(x) : x \in S}, n - 1)

NestedLeaves == BadSchemas \cup {Str("integer")}

\* strings at the edges of the keyword forms of load_type
EdgeStrings ==
    { Str("'"), Str("''"), Str("'a b'"), Str("'a"), Str("literally "), Str("just "), Str("") }

\* definitions of a custom type: the schema value and the type it loads as
Definitions ==
    { [src |-> Str("integer"), typ |-> <<Prim("Integer"), "">>],
      [src |-> Arr(<<Str("string")>>), typ |-> <<ArrayT(<<Prim("String"), "">>), "">>] }
TypesBlock(name, d) == KV("(types)", Obj(<<KV(name, d.src)>>))
\* "a" refers to P, then the object under "b" defines P again and refers to it
Redefining(d1, d2) ==
    Obj(<<TypesBlock("P", d1), KV("a", Str("P")),
          KV("b", Obj(<<TypesBlock("P", d2), KV("c", Str("P"))>>))>>)
\* the same, the object under "b" coming first in the iteration of the map
RedefiningFirst(d1, d2) ==
    Obj(<<TypesBlock("P", d1),
          KV("b", Obj(<<TypesBlock("P", d2), KV("c", Str("P"))>>)), KV("a", Str("P"))>>)
RedefiningSchemas ==
    UNION {{Redefining(p[1], p[2]), RedefiningFirst(p[1], p[2])} :
              p \in {q \in Definitions \X Definitions : q[1] # q[2]}}
\* a reference to a name that is defined later, or by the definition itself
ForwardReferences ==
    { Obj(<<KV("a", Str("P")), KV("b", Obj(<<TypesBlock("P", d)>>))>>) : d \in Definitions }
    \cup { Obj(<<KV("(types)", Obj(<<KV("L", Arr(<<Str("P")>>)), KV("P", Str("string"))>>)),
                 KV("a", Str("L"))>>),
           Obj(<<KV("(types)", Obj(<<KV("P", Str("P"))>>)), KV("a", Str("P"))>>),
           Obj(<<KV("(types)", Obj(<<KV("P", Arr(<<Str("P")>>))>>))>>) }

Schemas ==
    GoodSchemas \cup Nested(NestedLeaves, MaxNest) \cup EdgeStrings
    \cup RedefiningSchemas \cup ForwardReferences

Scalars ==
    { Null, Bool(TRUE), Bool(FALSE), Num(5), Flt(5, 0), Flt(5, 5), Num(8080),
      Str("a"), Str("x"), Str("red"), Str("") }
ArrayElements == {Str("x"), Str("y"), Num(1)}
DocKeys == {"a", "b", "port"}
PropertyValues == {Str("x"), Num(1)}
Entries == {KV(key, val) : key \in DocKeys, val \in PropertyValues}

Documents ==
    Scalars
    \cup {Arr(a) : a \in SeqsUpTo(ArrayElements, MaxArrayLen)}
    \cup {Obj(o) : o \in {m \in SeqsUpTo(Entries, MaxObjectLen) :
                            \A i, j \in 1..Len(m) : m[i].key = m[j].key => i = j}}
    \cup { Arr(<<Str("red"), Str("x")>>), Arr(<<Num(1), Str("a")>>),
           Arr(<<Arr(<<Str("x")>>)>>),
           Obj(<<KV("a", Obj(<<KV("a", Num(1)), KV("b", Num(1))>>))>>),
           Obj(<<KV("port", Obj(<<KV("a", Str("x")), KV("b", Num(1))>>))>>),
           Obj(<<KV("port", Obj(<<KV("a", Num(1)), KV("b", Str("x"))>>))>>),
           Obj(<<KV("a", Arr(<<Num(1), Str("x"), Num(1)>>)), KV("b", Num(1))>>) }

InputFile == "doc.json"

\* the batches of input files handed to validate
MaxBatch == 2       \* the most input files of one validate call
BatchDocuments ==
    { Str("a"), Num(5), Obj(<<>>), Obj(<<KV("b", Str("x"))>>),
      Obj(<<KV("a", Str("x")), KV("b", Num(1))>>) }
InputFiles(ds) ==
    [i \in 1..Len(ds) |-> [path |-> "doc" \o ToString(i) \o ".json", value |-> ds[i]]]
Batches == {InputFiles(ds) : ds \in SeqsUpTo(BatchDocuments, MaxBatch)}

\* the locations a caller of validate_value starts at
Locations == {<<>>, <<"p", "0">>}

\* the nodes of a type tree: a caller of validate_value may pass any of them
RECURSIVE SubTypes(_)
SubTypes(ct) ==
    LET t == ct[1].t
        of(cts) == UNION {SubTypes(cts[i]) : i \in 1..Len(cts)}
    IN {ct} \cup
       CASE t = "Object" -> UNION {SubTypes(ct[1].props[i].val) : i \in 1..Len(ct[1].props)}
         [] t = "Array" -> SubTypes(ct[1].elem)
         [] t = "FixedSizeArray" -> of(ct[1].elems)
         [] t \in {"OneOf", "AllOf"} -> of(ct[1].alts)
         [] t = "Custom" -> SubTypes(ct[1].spec)
         [] OTHER -> {}

----------------------------------------------------------------------------
(* The program: load a schema, then validate documents against it or        *)
(* convert it.                                                              *)

None == [none |-> TRUE]

Init ==
    /\ pc = "start"
    /\ schemaSrc \in Schemas
    /\ hashSeed \in 0..(HashSeeds - 1)
    /\ schema = None
    /\ node = <<>>
    /\ origin = <<>>
    /\ doc = None
    /\ files = <<>>
    /\ result = None
    /\ jsonschema = None

\* load (lines 259-267)
Load ==
    /\ pc = "start"
    /\ LET r == load(schemaSrc, hashSeed)
       IN /\ result' = IF r.tag = "Err" THEN r ELSE [tag |-> r.tag]
          /\ schema' = IF r.tag = "Ok" THEN r.val ELSE None
          /\ pc' = CASE r.tag = "Ok" -> "loaded"
                     [] r.tag = "Err" -> "load_err"
                     [] r.tag = "Panic" -> "load_panic"
    /\ UNCHANGED <<schemaSrc, hashSeed, node, origin, doc, files, jsonschema>>

\* what the caller of validate_value gets
Returned(r) ==
    CASE r.tag = "Ok" -> [tag |-> "Ok", val |-> r.val]
      [] r.tag = "Err" -> [tag |-> "Err", msg |-> r.msg]
      [] r.tag = "Panic" -> [tag |-> "Panic"]

\* a call of validate_value (lines 280-627) on the schema's Typeshed
Validated(ct, loc, d) ==
    LET r == validate_value(InputFile, loc, ct, d, schema.types)
    IN /\ result' = Returned(r)
       /\ schema' = [schema EXCEPT !.types = r.types]
       /\ pc' = IF r.tag = "Panic" THEN "validate_panic" ELSE "validated"
       /\ node' = ct
       /\ origin' = loc
       /\ doc' = d
       /\ UNCHANGED <<schemaSrc, hashSeed, files, jsonschema>>

\* validate_one (lines 629-641), from the parsed document on
ValidateOne(d) ==
    /\ pc = "loaded"
    /\ Validated(schema.value, <<>>, d)

\* validate_value (lines 280-627), called on a node of the schema
ValidateValue(ct, loc, d) ==
    /\ pc = "loaded"
    /\ ct # schema.value \/ loc # <<>>
    /\ Validated(ct, loc, d)

ValidateNode ==
    /\ pc = "loaded"
    /\ \E d \in Documents : \E loc \in Locations :
          \E ct \in SubTypes(schema.value) : ValidateValue(ct, loc, d)

\* validate (lines 643-652) on a batch of input files
Validate(input_files) ==
    /\ pc = "loaded"
    /\ LET r == validate(schema, input_files, 1, <<>>)
       IN /\ result' = Returned(r)
          /\ schema' = [schema EXCEPT !.types = r.types]
          /\ pc' = IF r.tag = "Panic" THEN "batch_panic" ELSE "batch_validated"
    /\ files' = input_files
    /\ UNCHANGED <<schemaSrc, hashSeed, node, origin, doc, jsonschema>>

ValidateBatch == pc = "loaded" /\ \E input_files \in Batches : Validate(input_files)

\* to_jsonschema (lines 654-665)
ToJsonSchema ==
    /\ pc = "loaded"
    /\ jsonschema' = to_jsonschema(schema)
    /\ pc' = "converted"
    /\ UNCHANGED <<schemaSrc, hashSeed, schema, node, origin, doc, files, result>>

Next ==
    \/ Load
    \/ \E d \in Documents : ValidateOne(d)
    \/ ValidateNode
    \/ ValidateBatch
    \/ ToJsonSchema

Spec == Init /\ [][Next]_vars

----------------------------------------------------------------------------
(* The claims.  Each is about the last call: node, origin, doc and result.  *)

Returns == pc = "validated" /\ result.tag = "Ok"
Parenthesized(key) == Len(key) >= 1 /\ Head(key) = "(" /\ SubSeq(key, Len(key), Len(key)) = ")"

\* whether alt validates the document with zero errors
AlternativeValid(alt) ==
    LET r == validate_value(InputFile, origin, alt, doc, schema.types)
    IN r.tag = "Ok" /\ r.val = <<>>

\* C1: against OneOf(alts), the error list is empty whenever at least one
\* alternative, at whatever position, validates the value with zero errors.
C1_OneOfReportsNothingWhenAnAlternativeValidates ==
    (/\ pc = "validated"
     /\ node[1].t = "OneOf"
     /\ \E i \in 1..Len(node[1].alts) : AlternativeValid(node[1].alts[i]))
    => (result.tag = "Ok" /\ result.val = <<>>)

\* C2: against Literal(v) there are zero errors iff the value is structurally
\* equal to v, and against LiteralString(s) iff the value is the string s.
C2_LiteralMatchesIffEqual ==
    (Returns /\ node[1].t \in {"Literal", "LiteralString"})
    => ((result.val = <<>>)
        <=> (IF node[1].t = "Literal" THEN ValueEq(doc, node[1].lit)
             ELSE doc.k = "str" /\ doc.s = node[1].str))

\* C3: against AnyArray every array has zero errors, against AnyObject every
\* object has zero errors, and any other kind of value has exactly one error.
C3_AnyArrayAnyObjectAcceptTheirKind ==
    /\ (Returns /\ node[1].t = "AnyArray")
       => Len(result.val) = (IF doc.k = "arr" THEN 0 ELSE 1)
    /\ (Returns /\ node[1].t = "AnyObject")
       => Len(result.val) = (IF doc.k = "obj" THEN 0 ELSE 1)

IsEnumSource(value) ==
    /\ value.k = "obj"
    /\ Len(value.o) = 1
    /\ value.o[1].key \in {"(one of literally)", "(enum)"}
    /\ value.o[1].val.k = "arr"

\* C4: an object whose single key is "(one of literally)" or "(enum)", with
\* the array [v1..vn], loads as the Enum of exactly v1..vn, in order; the
\* loaded schema validates a value with zero errors iff it equals some vi.
C4_EnumHoldsTheElementsOfTheArray ==
    /\ (pc = "loaded" /\ IsEnumSource(schemaSrc))
       => schema.value[1] = EnumT(schemaSrc.o[1].val.a)
    /\ (Returns /\ IsEnumSource(schemaSrc) /\ node = schema.value)
       => ((result.val = <<>>)
           <=> \E i \in 1..Len(schemaSrc.o[1].val.a) :
                   ValueEq(doc, schemaSrc.o[1].val.a[i]))

\* the errors of the resolved type of a Custom node, each with prefix put
\* before its message
PrefixedErrors(prefix, sub_errors) ==
    [i \in 1..Len(sub_errors) |->
        [file |-> sub_errors[i].file, path |-> sub_errors[i].path,
         message |-> prefix \o sub_errors[i].message]]

CustomReturns(prefix) ==
    LET sub == validate_value(InputFile, origin, node[1].spec, doc, schema.types)
    IN IF sub.tag = "Ok"
       THEN result.tag = "Ok" /\ result.val = PrefixedErrors(prefix, sub.val)
       ELSE result.tag = sub.tag

RECURSIVE Refs(_)
Refs(v) ==
    CASE v.k = "arr" -> UNION {Refs(v.a[i]) : i \in 1..Len(v.a)}
      [] v.k = "obj" ->
            UNION {(IF v.o[i].key = "$ref" /\ v.o[i].val.k = "str"
                    THEN {v.o[i].val.s} ELSE {}) \cup Refs(v.o[i].val)
                   : i \in 1..Len(v.o)}
      [] OTHER -> {}

RECURSIVE Split(_, _)
Split(s, sep) ==
    IF find(s, sep) = 0 THEN <<s>>
    ELSE <<split_once(s, sep)[2]>> \o Split(split_once(s, sep)[3], sep)

\* the value a JSON pointer of the form #/a/b leads to in v
RECURSIVE Follow(_, _)
Follow(v, tokens) ==
    IF Len(tokens) = 0 THEN [some |-> TRUE, val |-> v]
    ELSE IF v.k = "obj" /\ contains_key(v.o, Head(tokens))
    THEN Follow(Get(v.o, Head(tokens)), Tail(tokens))
    ELSE [some |-> FALSE]
Resolve(v, ref) ==
    IF starts_with(ref, "#/") THEN Follow(v, Split(strip_prefix(ref, "#/"), "/"))
    ELSE [some |-> FALSE]

\* the names of the Custom nodes of a type tree
CustomNames(ct) == {c[1].name : c \in {n \in SubTypes(ct) : n[1].t = "Custom"}}

\* C6: the emitted document holds a root definitions map with one entry per
\* Typeshed name, and every $ref is a JSON pointer that resolves, inside the
\* emitted document, to the definition entry for the name it ends with.
C6_EveryRefResolvesToItsDefinition ==
    pc = "converted"
    => /\ KeySet(Get(jsonschema.o, definitions_key).o) = KeySet(schema.types)
       /\ \A name \in CustomNames(schema.value) :
             \E ref \in Refs(jsonschema) :
                /\ ends_with(ref, "/" \o name)
                /\ Resolve(jsonschema, ref).some
                /\ Resolve(jsonschema, ref).val
                      = Obj(type_to_jsonschema(Get(schema.types, name)))
       /\ \A ref \in Refs(jsonschema) : Resolve(jsonschema, ref).some

\* the schema values that hold, at some depth, one of the defects of C7
DefectiveSchemas == Nested(BadSchemas, MaxNest)

\* C7: load_type returns a LoadError (an Err, no schema and no crash) for a
\* schema that holds, at any depth, a regex that does not compile, a
\* non-array under a sole "(one of)"/"(all of)", a non-object under
\* "(types)", an unrecognized keyword, or a non-boolean under
\* "(additional properties)"/"(additional keys)".
C7_DefectiveSchemaIsALoadError ==
    (pc # "start" /\ schemaSrc \in DefectiveSchemas)
    => (pc = "load_err" /\ result.tag = "Err" /\ schema = None)

\* C8: for a schema load_type accepted and any document (no HTML type is in
\* the model's schemas), validate_value returns an error list, never a fatal
\* error, whatever keys the document holds.
C8_ValidationNeverEndsFatally ==
    pc \in {"validated", "validate_panic"} => result.tag = "Ok"

ObjectCase == Returns /\ node[1].t = "Object" /\ doc.k = "obj"

\* the declared, not parenthesized, property names absent from the document
Absent ==
    {key \in KeySet(node[1].props) : ~Parenthesized(key) /\ key \notin KeySet(doc.o)}
MissingErrors ==
    SelectSeq(result.val,
              LAMBDA e : e.path = origin /\ starts_with(e.message, "Object is missing "))

\* C9: an object against Object(props, _): exactly one "missing properties"
\* error, at the object's own path and naming every absent name (and no
\* other property), iff a declared name that is not parenthesized is absent
\* from the document; none when all are present.
C9_OneMissingPropertiesErrorIffAbsent ==
    ObjectCase
    => /\ Len(MissingErrors) = (IF Absent # {} THEN 1 ELSE 0)
       /\ Absent # {}
          => \A key \in KeySet(node[1].props) :
                contains(MissingErrors[1].message, BT \o key \o BT) <=> key \in Absent

C9_Witness ==
    /\ ObjectCase
    /\ origin # <<>>
    /\ Cardinality(Absent) >= 2
    /\ \E key \in KeySet(node[1].props) : Parenthesized(key)
    /\ Len(MissingErrors) = 1
    /\ Len(result.val) >= 2

AdditionalErrors(key) ==
    SelectSeq(result.val,
              LAMBDA e : /\ e.path = origin
                         /\ e.message = "Object has additional property " \o BT \o key \o BT)
AllAdditionalErrors ==
    SelectSeq(result.val,
              LAMBDA e : /\ e.path = origin
                         /\ starts_with(e.message, "Object has additional property"))
Undeclared == KeySet(doc.o) \ KeySet(node[1].props)

\* C10: an object against Object(props, allowExtra) with no parenthesized
\* property: exactly one "additional property" error per document key that
\* is not a declared name when allowExtra is false, none when it is true,
\* and never one for a declared key.
C10_OneAdditionalPropertyErrorPerUndeclaredKey ==
    (ObjectCase /\ \A key \in KeySet(node[1].props) : ~Parenthesized(key))
    => /\ \A key \in KeySet(doc.o) :
             Len(AdditionalErrors(key))
                = (IF key \in Undeclared /\ ~node[1].extra THEN 1 ELSE 0)
       /\ Len(AllAdditionalErrors)
             = (IF node[1].extra THEN 0 ELSE Cardinality(Undeclared))

C10_Witness ==
    /\ ObjectCase
    /\ \A key \in KeySet(node[1].props) : ~Parenthesized(key)
    /\ ~node[1].extra
    /\ Cardinality(Undeclared) >= 2
    /\ KeySet(doc.o) \cap KeySet(node[1].props) # {}
    /\ Len(AllAdditionalErrors) = 2

C10_WitnessAllowed ==
    /\ ObjectCase
    /\ node[1].extra
    /\ Undeclared # {}
    /\ Len(AllAdditionalErrors) = 0

\* validate_value of the document against ct at loc, on the schema's Typeshed
SubResult(ct, loc) == validate_value(InputFile, loc, ct, doc, schema.types)
\* validate_value of the i-th element of the document against ct
ElementResult(ct, i) ==
    validate_value(InputFile, Append(origin, ToString(i - 1)), ct, doc.a[i], schema.types)

\* the error lists of the Results rs, one after the other
RECURSIVE ConcatErrors(_)
ConcatErrors(rs) == IF Len(rs) = 0 THEN <<>> ELSE Head(rs).val \o ConcatErrors(Tail(rs))

AllReturn(rs) == \A i \in 1..Len(rs) : rs[i].tag = "Ok"
Alternatives == [i \in 1..Len(node[1].alts) |-> SubResult(node[1].alts[i], origin)]

\* C11: against OneOf(alts), when no alternative validates the value with
\* zero errors, the result is the error lists of all the alternatives, in
\* declared order, followed by exactly one summary error at the current path.
C11_OneOfReportsEveryAlternativeAndOneSummary ==
    (/\ pc = "validated"
     /\ node[1].t = "OneOf"
     /\ AllReturn(Alternatives)
     /\ \A i \in 1..Len(Alternatives) : Alternatives[i].val # <<>>)
    => /\ result.tag = "Ok"
       /\ result.val
             = ConcatErrors(Alternatives)
               \o <<[file |-> InputFile, path |-> origin,
                     message |-> "Value does not match any of the types"]>>

C11_Witness ==
    /\ Returns
    /\ node[1].t = "OneOf"
    /\ Len(node[1].alts) >= 2
    /\ origin # <<>>
    /\ \A i \in 1..Len(Alternatives) : Alternatives[i].val # <<>>
    /\ Len(result.val) = Len(node[1].alts) + 1

FixedCase == pc = "validated" /\ node[1].t = "FixedSizeArray" /\ doc.k = "arr"
Positions == [i \in 1..Len(doc.a) |-> ElementResult(node[1].elems[i], i)]
LengthErrors ==
    SelectSeq(result.val,
              LAMBDA e : starts_with(e.message, "Array length does not match fixed size"))

\* C12: an array against FixedSizeArray(Ts): when the length of the array is
\* not len(Ts), exactly one length error at the path of the array and
\* nothing else; otherwise no length error, and the error lists of element
\* i against Ts[i] at path+[i], by ascending i.
C12_FixedSizeArrayLengthThenEachPosition ==
    /\ (FixedCase /\ Len(doc.a) # Len(node[1].elems))
       => /\ result.tag = "Ok"
          /\ Len(result.val) = 1
          /\ Len(LengthErrors) = 1
          /\ result.val[1].path = origin
    /\ (FixedCase /\ Len(doc.a) = Len(node[1].elems) /\ AllReturn(Positions))
       => /\ result.tag = "Ok"
          /\ result.val = ConcatErrors(Positions)
          /\ Len(LengthErrors) = 0

C12_Witness ==
    /\ FixedCase
    /\ Returns
    /\ Len(doc.a) = Len(node[1].elems)
    /\ origin # <<>>
    /\ Len(result.val) = 1
    /\ result.val[1].path = origin \o <<"1">>

C12_WitnessLength ==
    /\ FixedCase
    /\ Returns
    /\ Len(doc.a) = 1
    /\ Len(LengthErrors) = 1

Elements == [i \in 1..Len(doc.a) |-> ElementResult(node[1].elem, i)]

\* C13: against Array(T) the result is the error lists of every element
\* against T at path+[index], by ascending index; against AllOf(cs) it is
\* the error lists of every constraint, in declared order: an element or a
\* constraint that fails never suppresses the errors of a later one.
C13_ArrayAndAllOfReportEveryPart ==
    /\ (pc = "validated" /\ node[1].t = "Array" /\ doc.k = "arr" /\ AllReturn(Elements))
       => (result.tag = "Ok" /\ result.val = ConcatErrors(Elements))
    /\ (pc = "validated" /\ node[1].t = "AllOf" /\ AllReturn(Alternatives))
       => (result.tag = "Ok" /\ result.val = ConcatErrors(Alternatives))

C13_Witness ==
    /\ Returns
    /\ node[1].t = "Array"
    /\ doc.k = "arr"
    /\ Len(doc.a) >= 2
    /\ Len(result.val) >= 2
    /\ result.val[1].path = origin \o <<"0">>
    /\ result.val[Len(result.val)].path = origin \o <<"1">>

C13_WitnessAllOf ==
    /\ Returns
    /\ node[1].t = "AllOf"
    /\ Len(node[1].alts) >= 2
    /\ \A i \in 1..Len(Alternatives) : Alternatives[i].val # <<>>
    /\ Len(result.val) >= 2

\* the Schema as load returned it
Loaded == load(schemaSrc, hashSeed).val
\* the Results of validating each file of the batch alone, on the loaded Schema
Alone == [i \in 1..Len(files) |-> validate_one(Loaded, files[i])]

\* C14: after validate_value, validate_one or validate the Typeshed and the
\* root type are as load left them, also when a generic-key pattern was
\* loaded again during the validation; the result of a batch is the error
\* lists of its documents, each as validated alone, in input order.
C14_ValidationLeavesTheSchemaUnchanged ==
    /\ pc \in {"validated", "validate_panic", "batch_validated", "batch_panic"}
       => schema = Loaded
    /\ (pc = "batch_validated" /\ AllReturn(Alone))
       => (result.tag = "Ok" /\ result.val = ConcatErrors(Alone))

C14_Witness ==
    /\ pc = "batch_validated"
    /\ result.tag = "Ok"
    /\ Len(files) >= 2
    /\ Len(schema.types) >= 1
    /\ Alone[1].val # <<>>
    /\ Alone[2].val # <<>>
    /\ Alone[1].val # Alone[2].val

\* a generic-key pattern was loaded again during the validation
C14_WitnessGeneric ==
    /\ Returns
    /\ node[1].t = "Object"
    /\ doc.k = "obj"
    /\ \E key \in KeySet(node[1].props) : Parenthesized(key)
    /\ \E e \in {result.val[i] : i \in 1..Len(result.val)} :
          e.path = origin \o <<"(key)">>

\* the type tree ct with every documentation string replaced by text
RECURSIVE Redocumented(_, _)
Redocumented(ct, text) ==
    LET typ == ct[1]
        t == typ.t
        each(cts) == [i \in 1..Len(cts) |-> Redocumented(cts[i], text)]
    IN << CASE t = "Object" ->
                  ObjectT([i \in 1..Len(typ.props) |->
                              KV(typ.props[i].key, Redocumented(typ.props[i].val, text))],
                          typ.extra)
            [] t = "Array" -> ArrayT(Redocumented(typ.elem, text))
            [] t = "FixedSizeArray" -> FixedSizeArrayT(each(typ.elems))
            [] t = "OneOf" -> OneOfT(each(typ.alts))
            [] t = "AllOf" -> AllOfT(each(typ.alts))
            [] t = "Custom" -> CustomT(typ.name, Redocumented(typ.spec, text))
            [] OTHER -> typ,
          text >>
RedocumentedTypes(types, text) ==
    [i \in 1..Len(types) |-> KV(types[i].key, Redocumented(types[i].val, text))]

OtherDocumentation == "another text"
Undocumented ==
    validate_value(InputFile, origin, Redocumented(node, OtherDocumentation), doc,
                   RedocumentedTypes(schema.types, OtherDocumentation))

\* C15: two type trees that differ only in the documentation strings of
\* their nodes give, on any document, the same error list: the same files,
\* paths and messages in the same order (and the same fatal outcome).
C15_DocumentationNeverAffectsMatching ==
    pc = "validated"
    => /\ Undocumented.tag = result.tag
       /\ result.tag = "Ok" => Undocumented.val = result.val

C15_Witness ==
    /\ Returns
    /\ node[2] # ""
    /\ node[2] # OtherDocumentation
    /\ Len(result.val) = 1
    /\ result.val[1].path = origin
    /\ starts_with(result.val[1].message, "Value has type ")

Property(ct, key) == Get(ct[1].props, key)

\* C16: a Custom node holds a copy of the Typeshed entry of its name as it
\* was when the reference was loaded: a later "(types)" block that inserts
\* the name again changes the Typeshed entry and not the Custom nodes
\* loaded before it; a name not yet in the Typeshed is a load error.
C16_CustomHoldsTheEntryAtTheMomentOfReference ==
    /\ \A d1 \in Definitions : \A d2 \in Definitions \ {d1} :
          /\ (pc = "loaded" /\ schemaSrc = Redefining(d1, d2))
             => /\ Property(schema.value, "a") = <<CustomT("P", d1.typ), "">>
                /\ Property(Property(schema.value, "b"), "c") = <<CustomT("P", d2.typ), "">>
                /\ Get(schema.types, "P") = d2.typ
                /\ Len(schema.types) = 1
          /\ (pc = "loaded" /\ schemaSrc = RedefiningFirst(d1, d2))
             => /\ Property(schema.value, "a") = <<CustomT("P", d2.typ), "">>
                /\ Property(Property(schema.value, "b"), "c") = <<CustomT("P", d2.typ), "">>
                /\ Get(schema.types, "P") = d2.typ
    /\ (pc # "start" /\ schemaSrc \in RedefiningSchemas) => pc # "load_err"
    /\ (pc # "start" /\ schemaSrc \in ForwardReferences)
       => (pc = "load_err" /\ result = [tag |-> "Err", msg |-> "Invalid type \"P\""])

C16_Witness ==
    /\ pc = "loaded"
    /\ \E d1 \in Definitions : \E d2 \in Definitions \ {d1} :
          /\ schemaSrc = Redefining(d1, d2)
          /\ Property(schema.value, "a")[1].spec # Get(schema.types, "P")

C16_WitnessForward == pc = "load_err" /\ schemaSrc \in ForwardReferences

Quoted(s) == Len(s) >= 2 /\ starts_with(s, "'") /\ ends_with(s, "'") /\ ~contains(s, ", ")

\* C18: load_type of a string returns a type or a load error and never
\* aborts, for the one-character string of a single quote and the bare
\* prefixes too; a keyword of the form 'X', X possibly empty, loads as
\* LiteralString(X).
C18_LoadTypeIsTotalOnStrings ==
    (pc # "start" /\ schemaSrc.k = "str")
    => /\ pc # "load_panic"
       /\ Quoted(schemaSrc.s)
          => /\ pc # "load_err"
             /\ schema.value[1]
                   = LiteralStringT(SubSeq(schemaSrc.s, 2, Len(schemaSrc.s) - 1))

\* the member of the JSON Schema object of ct under key
Member(ct, key) == Get(type_to_jsonschema(ct), key)
SameValues(a, b) ==
    a.k = "arr" /\ Len(a.a) = Len(b) /\ \A i \in 1..Len(b) : ValueEq(a.a[i], b[i])

\* C17: type_to_jsonschema gives, for Enum(vals), an object whose "enum"
\* member is an array of the same values as vals, in the same order and of
\* the same JSON kind, and for Literal(v) / LiteralString(s) an object whose
\* "const" member is v / the string s.
C17_EnumAndConstKeepTheValues ==
    pc = "converted"
    => \A ct \in SubTypes(schema.value) :
          /\ ct[1].t = "Enum"
             => /\ contains_key(type_to_jsonschema(ct), "enum")
                /\ SameValues(Member(ct, "enum"), ct[1].vals)
          /\ ct[1].t = "Literal"
             => /\ contains_key(type_to_jsonschema(ct), "const")
                /\ ValueEq(Member(ct, "const"), ct[1].lit)
          /\ ct[1].t = "LiteralString"
             => /\ contains_key(type_to_jsonschema(ct), "const")
                /\ Member(ct, "const") = Str(ct[1].str)

====
